---------------------------- MODULE Spec2Model ----------------------------
(***************************************************************************)
(* Model of src/main.py: the Teams message handler handle_message and the  *)
(* process-wide conversation_history store.                                *)
(*                                                                         *)
(* handle_message is a coroutine run by a single-threaded asyncio event    *)
(* loop: the code between two awaits runs without interruption, and any    *)
(* number of handler invocations may be suspended at an await at once.     *)
(* Each action below is one such uninterrupted stretch of one invocation.  *)
(*                                                                         *)
(* Text is a sequence of tokens (a literal of the source is one token);    *)
(* an optional value of Python (None or a string) is a record.             *)
(***************************************************************************)
EXTENDS Naturals, Sequences, FiniteSets

\* ------------------------------------------------------------- bounds
\* Handler invocations that can be in flight at once (slots are reused).
MaxHandlers == 2
\* Messages that arrive in one behaviour of Spec.
MaxMsgs == 3
\* Messages that arrive in one behaviour of SpecSeq.
MaxSeqMsgs == 4

Handlers == 1..MaxHandlers
ConvIds == {"c1", "c2"}

\* ------------------------------------------------------ Python values
None == [isNone |-> TRUE, s |-> <<>>]
Some(s) == [isNone |-> FALSE, s |-> s]

\* bool(v) for v None or a string.
Truthy(v) == ~v.isNone /\ v.s # <<>>

\* str(v), as an f-string formats v.
Str(v) == IF v.isNone THEN <<"None">> ELSE v.s

\* v or "" (lines 163-169).
OrEmpty(v) == IF Truthy(v) THEN v.s ELSE <<>>

\* "\n".join(lines) (line 190).
RECURSIVE Join(_)
Join(lines) ==
    IF lines = <<>> THEN <<>>
    ELSE IF Len(lines) = 1 THEN lines[1]
    ELSE lines[1] \o <<"\n">> \o Join(Tail(lines))

\* ------------------------------------------------------------- inputs
\* ctx.activity.text
Texts == {None, Some(<<>>), Some(<<"hi">>)}

\* A channel account: present is FALSE for None; hasName tells whether the
\* object has a name attribute.
NoAccount == [present |-> FALSE, hasName |-> FALSE, name |-> None]
Account(n) == [present |-> TRUE, hasName |-> TRUE, name |-> n]

\* The sender attributes of an activity: whether it has from_property and
\* from, and their values.
Senders ==
    { [hasFromProperty |-> FALSE, from_property |-> NoAccount,
       hasFrom |-> FALSE, from |-> NoAccount],
      [hasFromProperty |-> TRUE, from_property |-> Account(Some(<<"Alex">>)),
       hasFrom |-> FALSE, from |-> NoAccount],
      [hasFromProperty |-> TRUE, from_property |-> NoAccount,
       hasFrom |-> TRUE, from |-> Account(Some(<<"Alex">>))],
      [hasFromProperty |-> TRUE, from_property |-> Account(Some(<<>>)),
       hasFrom |-> FALSE, from |-> NoAccount],
      [hasFromProperty |-> FALSE, from_property |-> NoAccount,
       hasFrom |-> TRUE, from |-> Account(None)],
      [hasFromProperty |-> FALSE, from_property |-> NoAccount,
       hasFrom |-> TRUE, from |-> [present |-> TRUE, hasName |-> FALSE, name |-> None]] }

Activities == [text : Texts, conversation : ConvIds, sender : Senders]

NoActivity == [text |-> None, conversation |-> "c1",
               sender |-> CHOOSE s \in Senders : ~s.hasFromProperty /\ ~s.hasFrom]

\* What chat_prompt.send returns: result.response is None, or an object
\* whose content is None or a string.
Results ==
    { [hasResponse |-> FALSE, content |-> None],
      [hasResponse |-> TRUE, content |-> None],
      [hasResponse |-> TRUE, content |-> Some(<<>>)],
      [hasResponse |-> TRUE, content |-> Some(<<"ok">>)] }

\* str(e) of the exceptions the awaited calls raise.
Descriptions == {<<>>, <<"timeout">>}

\* ---------------------------------------------------- prompt assembly
\* The number of turns of history rendered into the prompt (line 189).
Window == 5

Max(a, b) == IF a >= b THEN a ELSE b

\* Mutant of UserFrom: the from attribute is not tried.
UserFrom_NoFallback(sender) ==
    IF sender.hasFromProperty THEN sender.from_property ELSE NoAccount

\* user_from (lines 154-158).
UserFrom(sender) ==
    LET first == IF sender.hasFromProperty THEN sender.from_property ELSE NoAccount
    IN  IF ~first.present /\ sender.hasFrom THEN sender.from ELSE first

\* user_info["name"] (lines 149, 160-163), read back at line 183.
UserName(sender) ==
    LET user_from == UserFrom(sender)
    IN  IF user_from.present /\ user_from.hasName THEN OrEmpty(user_from.name)
        ELSE <<>>

\* The activities of Spec: one text, from the sender whose name is in
\* from_property, on either conversation.
SomeActivities ==
    {a \in Activities : /\ a.text = Some(<<"hi">>)
                        /\ a.sender.from_property.present
                        /\ UserName(a.sender) # <<>>}

\* user_context_prefix (line 184).
UserContextPrefix(user_name) ==
    IF user_name # <<>> THEN <<"User (">> \o user_name \o <<")">> ELSE <<"User">>

\* Mutant of RecentHistory: history[:5], the oldest turns.
RecentHistory_Oldest(history) ==
    SubSeq(history, 1, IF Len(history) < Window THEN Len(history) ELSE Window)

\* history[-5:] (line 189).
RecentHistory(history) ==
    SubSeq(history, Max(1, Len(history) - Window + 1), Len(history))

\* One line of context_summary (line 191).
RenderTurn(msg) ==
    IF msg.role = "user" THEN <<"User: ">> \o Str(msg.content)
    ELSE <<"Assistant: ">> \o Str(msg.content)

\* context_summary (lines 190-193).
ContextSummary(recent_history) ==
    Join([i \in 1..Len(recent_history) |-> RenderTurn(recent_history[i])])

\* Mutant of ContextualInput: the test of line 187 is len(...) > 2.
ContextualInput_LateHeader(history, user_name, user_message) ==
    IF Len(history) > 2
    THEN <<"Conversation history:\n">> \o ContextSummary(RecentHistory(history))
         \o <<"\n\n">> \o UserContextPrefix(user_name)
         \o <<" request: ">> \o Str(user_message)
    ELSE UserContextPrefix(user_name) \o <<" request: ">> \o Str(user_message)

\* contextual_input (lines 187-196).
ContextualInput(history, user_name, user_message) ==
    IF Len(history) > 0
    THEN <<"Conversation history:\n">> \o ContextSummary(RecentHistory(history))
         \o <<"\n\n">> \o UserContextPrefix(user_name)
         \o <<" request: ">> \o Str(user_message)
    ELSE UserContextPrefix(user_name) \o <<" request: ">> \o Str(user_message)

\* user_metadata_note (lines 199-201).
UserMetadataNote(user_name) ==
    IF user_name # <<>>
    THEN <<"\n\n## CURRENT USER CONTEXT\nThe person making this request is: ">>
         \o user_name
         \o <<". Use this name for tools that require userName or sender parameters.">>
    ELSE <<>>

\* base_instructions (lines 203-270).
base_instructions == <<"CRITICAL SYSTEM REQUIREMENT ... from the tool results">>

\* full_instructions (line 273).
FullInstructions(user_name) == base_instructions \o UserMetadataNote(user_name)

\* Mutant of ErrorReply: the description is left out.
ErrorReply_NoDescription(error_msg) == <<"Sorry, I encountered an error: ">>

\* The text of the reply in the except clause (line 298).
ErrorReply(error_msg) == <<"Sorry, I encountered an error: ">> \o error_msg

\* The text of the reply to an empty result (line 293).
FallbackReply == <<"I'm sorry, I couldn't generate a response.">>

\* Mutant of HasContent: the content of the response is not tested.
HasContent_AnyResponse(result) == result.hasResponse

\* The test of line 280.
HasContent(result) == result.hasResponse /\ Truthy(result.content)

\* What chat_prompt.send returned (line 275): a response with text in it, or
\* an empty result.
Outcome(result) ==
    IF result.hasResponse /\ result.content \notin {None, Some(<<>>)}
    THEN "content" ELSE "empty"

\* Mutant of InitHistory: the list is reset without the test of line 176.
InitHistory_Reset(store, conversation_id) ==
    [c \in DOMAIN store \cup {conversation_id} |->
        IF c = conversation_id THEN <<>> ELSE store[c]]

\* Lines 176-177: the list of a conversation seen for the first time is
\* created empty; the others are kept.
InitHistory(store, conversation_id) ==
    [c \in DOMAIN store \cup {conversation_id} |->
        IF c \in DOMAIN store THEN store[c] ELSE <<>>]

\* Mutant of AppendExchange: the append of the user turn is missing.
AppendExchange_AssistantOnly(history, user_message, ai_response) ==
    history \o << [role |-> "assistant", content |-> ai_response] >>

\* The two appends of lines 283-290.
AppendExchange(history, user_message, ai_response) ==
    history \o << [role |-> "user", content |-> user_message],
                  [role |-> "assistant", content |-> ai_response] >>

\* -------------------------------------------------------------- state
VARIABLES
    conversation_history,  \* line 59: conversation id -> list of turns
    pc,                    \* where each invocation is suspended
    activity,              \* ctx.activity of each invocation
    contextual_input,      \* the input passed to chat_prompt.send
    full_instructions,     \* the instructions passed to chat_prompt.send
    replies,               \* the texts each invocation passed to ctx.reply
    error_msg,             \* str(e) of the exceptions caught at line 295
    sendOutcome,           \* how chat_prompt.send ended for each invocation
    arrivals,              \* history: number of messages arrived so far
    earlier,               \* history: the invocations in flight that
                           \* arrived before this one
    snapLen,               \* history: len of the turn list at line 187
    overtaken,             \* history: a message that arrived later on the same
                           \* conversation had its turns stored while this
                           \* invocation was in flight
    turnMeta,              \* history: per stored turn, the snapLen of the
                           \* invocation that stored it, and whether that
                           \* invocation had been overtaken
    okEnded,               \* history: per conversation, whether the reply of
                           \* line 291 of some invocation returned
    exchanges              \* history: per conversation, the invocations to
                           \* which chat_prompt.send returned content

vars == << conversation_history, pc, activity, contextual_input,
           full_instructions, replies, error_msg, sendOutcome,
           arrivals, earlier, snapLen, overtaken, turnMeta,
           okEnded, exchanges >>

\* No invocation runs in the slot: none yet or the last one returned (idle),
\* or an exception left the last one (raised).
Free == {"idle", "raised"}

\* The turns stored for conversation c (none when it has no list yet).
HistoryOf(c) ==
    IF c \in DOMAIN conversation_history THEN conversation_history[c] ELSE <<>>

Init ==
    /\ conversation_history = [c \in {} |-> <<>>]
    /\ pc = [h \in Handlers |-> "idle"]
    /\ activity = [h \in Handlers |-> NoActivity]
    /\ contextual_input = [h \in Handlers |-> <<>>]
    /\ full_instructions = [h \in Handlers |-> <<>>]
    /\ replies = [h \in Handlers |-> <<>>]
    /\ error_msg = [h \in Handlers |-> <<>>]
    /\ sendOutcome = [h \in Handlers |-> "none"]
    /\ arrivals = 0
    /\ earlier = [h \in Handlers |-> {}]
    /\ snapLen = [h \in Handlers |-> 0]
    /\ overtaken = [h \in Handlers |-> FALSE]
    /\ turnMeta = [c \in ConvIds |-> <<>>]
    /\ okEnded = [c \in ConvIds |-> FALSE]
    /\ exchanges = [c \in ConvIds |-> 0]

\* ------------------------------------------------------------ actions
\* Lines 134-141: the framework invokes handle_message for a new message;
\* the invocation is suspended at the await of the typing reply.
Arrive(h, a, limit) ==
    /\ arrivals < limit
    /\ pc[h] \in Free
    /\ \A g \in Handlers : g < h => pc[g] \notin Free
    /\ pc' = [pc EXCEPT ![h] = "typing"]
    /\ activity' = [activity EXCEPT ![h] = a]
    /\ arrivals' = arrivals + 1
    /\ earlier' = [earlier EXCEPT ![h] = {g \in Handlers : pc[g] \notin Free}]
    /\ UNCHANGED << conversation_history, contextual_input, full_instructions,
                    replies, error_msg, sendOutcome, snapLen,
                    overtaken, turnMeta, okEnded, exchanges >>

\* The invocation ends and its frame is gone.
Leave(h, how) ==
    /\ pc' = [pc EXCEPT ![h] = how]
    /\ activity' = [activity EXCEPT ![h] = NoActivity]
    /\ contextual_input' = [contextual_input EXCEPT ![h] = <<>>]
    /\ full_instructions' = [full_instructions EXCEPT ![h] = <<>>]
    /\ replies' = [replies EXCEPT ![h] = <<>>]
    /\ error_msg' = [error_msg EXCEPT ![h] = <<>>]
    /\ sendOutcome' = [sendOutcome EXCEPT ![h] = "none"]
    /\ earlier' = [g \in Handlers |-> IF g = h THEN {} ELSE earlier[g] \ {h}]
    /\ snapLen' = [snapLen EXCEPT ![h] = 0]
    /\ overtaken' = [overtaken EXCEPT ![h] = FALSE]

\* Line 141 raises: the await is outside the try, the exception leaves the
\* handler.
TypingRaises(h, d) ==
    /\ pc[h] = "typing"
    /\ Leave(h, "raised")
    /\ UNCHANGED << conversation_history, arrivals, turnMeta, okEnded, exchanges >>

\* Lines 141-275: the typing reply returns; the sender is resolved, the
\* conversation's list is created if absent, the prompt and the
\* instructions are assembled, and the invocation is suspended at the await
\* of chat_prompt.send.
TypingReturns(h) ==
    /\ pc[h] = "typing"
    /\ LET user_message == activity[h].text
           conversation_id == activity[h].conversation
           user_name == UserName(activity[h].sender)
           history == HistoryOf(conversation_id)
       IN  /\ conversation_history' =
                 InitHistory(conversation_history, conversation_id)
           /\ contextual_input' = [contextual_input EXCEPT
                 ![h] = ContextualInput(history, user_name, user_message)]
           /\ full_instructions' = [full_instructions EXCEPT
                 ![h] = FullInstructions(user_name)]
           /\ snapLen' = [snapLen EXCEPT ![h] = Len(history)]
    /\ pc' = [pc EXCEPT ![h] = "send"]
    /\ UNCHANGED << activity, replies, error_msg, sendOutcome, arrivals,
                    earlier, overtaken, turnMeta, okEnded, exchanges >>

\* Lines 275-293: chat_prompt.send returns. With content, both turns are
\* appended and the invocation is suspended at the reply of line 291;
\* without, at the reply of line 293.
SendReturns(h, result) ==
    /\ pc[h] = "send"
    /\ LET c == activity[h].conversation
       IN  IF HasContent(result)
           THEN /\ conversation_history' = [conversation_history EXCEPT
                      ![c] = AppendExchange(@, activity[h].text, result.content)]
                /\ turnMeta' = [turnMeta EXCEPT ![c] =
                      @ \o << [ctx |-> snapLen[h], late |-> overtaken[h]],
                              [ctx |-> snapLen[h], late |-> overtaken[h]] >>]
                /\ overtaken' = [g \in Handlers |->
                      \/ overtaken[g]
                      \/ /\ g \in earlier[h]
                         /\ activity[g].conversation = c]
                /\ replies' = [replies EXCEPT ![h] = Append(@, Str(result.content))]
                /\ pc' = [pc EXCEPT ![h] = "reply"]
           ELSE /\ replies' = [replies EXCEPT ![h] = Append(@, FallbackReply)]
                /\ pc' = [pc EXCEPT ![h] = "fallback"]
                /\ UNCHANGED << conversation_history, turnMeta, overtaken >>
    /\ sendOutcome' = [sendOutcome EXCEPT ![h] = Outcome(result)]
    /\ exchanges' = [exchanges EXCEPT ![activity[h].conversation] =
                        IF Outcome(result) = "content" THEN @ + 1 ELSE @]
    /\ UNCHANGED << activity, contextual_input, full_instructions,
                    error_msg, arrivals, earlier, snapLen, okEnded >>

\* Lines 275, 295-298: chat_prompt.send raises; the except clause passes the
\* error text to ctx.reply.
SendRaises(h, d) ==
    /\ pc[h] = "send"
    /\ sendOutcome' = [sendOutcome EXCEPT ![h] = "raised"]
    /\ error_msg' = [error_msg EXCEPT ![h] = d]
    /\ replies' = [replies EXCEPT ![h] = Append(@, ErrorReply(d))]
    /\ pc' = [pc EXCEPT ![h] = "except"]
    /\ UNCHANGED << conversation_history, activity, contextual_input,
                    full_instructions, arrivals, earlier, snapLen, overtaken, turnMeta, okEnded, exchanges >>

\* Lines 291, 293, 298: the awaited ctx.reply returns, the text is on the
\* chat surface and the handler returns.
ReplyReturns(h) ==
    /\ pc[h] \in {"reply", "fallback", "except"}
    /\ okEnded' = [okEnded EXCEPT ![activity[h].conversation] =
                      @ \/ pc[h] = "reply"]
    /\ Leave(h, "idle")
    /\ UNCHANGED << conversation_history, arrivals, turnMeta, exchanges >>

\* Lines 291, 293, 295-298: a ctx.reply inside the try raises; the except
\* clause passes the error text to ctx.reply.
ReplyRaises(h, d) ==
    /\ pc[h] \in {"reply", "fallback"}
    /\ error_msg' = [error_msg EXCEPT ![h] = d]
    /\ replies' = [replies EXCEPT ![h] = Append(@, ErrorReply(d))]
    /\ pc' = [pc EXCEPT ![h] = "except"]
    /\ UNCHANGED << conversation_history, activity, contextual_input,
                    full_instructions, sendOutcome, arrivals, earlier,
                    snapLen, overtaken, turnMeta, okEnded,
                    exchanges >>

\* Line 298 raises: nothing encloses the except clause, the exception
\* leaves the handler.
ExceptReplyRaises(h, d) ==
    /\ pc[h] = "except"
    /\ Leave(h, "raised")
    /\ UNCHANGED << conversation_history, arrivals, turnMeta, okEnded, exchanges >>

\* One step of an invocation that has arrived; the exceptions raised have
\* their descriptions in descriptions.
Step(descriptions) ==
    \/ \E h \in Handlers, d \in descriptions : TypingRaises(h, d)
    \/ \E h \in Handlers : TypingReturns(h)
    \/ \E h \in Handlers, result \in Results : SendReturns(h, result)
    \/ \E h \in Handlers, d \in descriptions : SendRaises(h, d)
    \/ \E h \in Handlers : ReplyReturns(h)
    \/ \E h \in Handlers, d \in descriptions : ReplyRaises(h, d)
    \/ \E h \in Handlers, d \in descriptions : ExceptReplyRaises(h, d)

\* The framework runs handlers concurrently: a message may arrive while
\* others are being handled.
Next ==
    \/ \E h \in Handlers, a \in SomeActivities : Arrive(h, a, MaxMsgs)
    \/ Step({<<"timeout">>})

Spec == Init /\ [][Next]_vars

\* One message at a time, with every kind of activity: a message arrives
\* only when no invocation is in flight.
NextSeq ==
    \/ \E a \in Activities : Arrive(1, a, MaxSeqMsgs)
    \/ Step(Descriptions)

SpecSeq == Init /\ [][NextSeq]_vars

\* ------------------------------------------------------------- claims
\* No step appends to, or otherwise changes, the turns of any conversation.
TurnsUnchanged == \A c \in ConvIds : HistoryOf(c)' = HistoryOf(c)

\* In every state each conversation holds two turns per invocation to which
\* the model returned content, user and assistant in alternation.
C1_Shape ==
    \A c \in ConvIds :
        LET history == HistoryOf(c)
        IN  /\ Len(history) = 2 * exchanges[c]
            /\ \A i \in 1..Len(history) :
                  history[i].role = IF i % 2 = 1 THEN "user" ELSE "assistant"

\* Every change of a conversation's turns is one step of one invocation on
\* that conversation, to which the model returned content: it appends the
\* user turn of its message and, directly after it, the assistant turn that
\* holds the response it goes on to relay.
C1_Append ==
    \A c \in ConvIds :
        HistoryOf(c)' # HistoryOf(c) =>
            \E h \in Handlers, result \in Results :
                /\ pc[h] = "send" /\ pc'[h] = "reply"
                /\ activity[h].conversation = c
                /\ Truthy(result.content)
                /\ replies'[h] = << result.content.s >>
                /\ HistoryOf(c)' = HistoryOf(c) \o
                      << [role |-> "user", content |-> activity[h].text],
                         [role |-> "assistant", content |-> result.content] >>

\* C1: the history of every conversation holds exactly 2N turns, N the
\* number of exchanges on it to which the model returned a non-empty
\* response; the turns alternate user, assistant from the first, each
\* assistant turn is the response to the user turn directly before it, and
\* no interleaving of suspended handlers loses or splits an append.
C1_HistoryHoldsExchanges == [] C1_Shape /\ [][C1_Append]_vars

\* C1 witness: two exchanges of one conversation are stored, the later
\* message first (the handlers ran concurrently), and the model call of a
\* third message on the conversation has raised.
C1_Witness ==
    \E c \in ConvIds, h \in Handlers :
        /\ Len(HistoryOf(c)) = 4
        /\ turnMeta[c][3].late
        /\ arrivals = 3
        /\ pc[h] = "except" /\ sendOutcome[h] = "raised"
        /\ activity[h].conversation = c

\* C3: when the model returns an empty result (no response, or a response
\* whose content is None or empty), the text passed to the chat surface is
\* the fixed fallback string, and no step of that invocation changes the
\* turns of any conversation.
C3_EmptyResult ==
    /\ [] (\A h \in Handlers :
             sendOutcome[h] = "empty" =>
                 /\ Len(replies[h]) >= 1
                 /\ replies[h][1] = << "I'm sorry, I couldn't generate a response." >>
                 /\ (pc[h] = "fallback" => Len(replies[h]) = 1))
    /\ [][\A h \in Handlers :
             ( \/ pc[h] = "typing" /\ pc'[h] # "typing"
               \/ pc[h] = "send" /\ sendOutcome'[h] = "empty"
               \/ sendOutcome[h] = "empty" /\ pc'[h] # pc[h] )
             => TurnsUnchanged]_vars

\* C3 witness: an invocation on a conversation that already holds an
\* exchange got an empty result and waits for the fallback reply.
C3_Witness ==
    \E h \in Handlers :
        /\ pc[h] = "fallback" /\ sendOutcome[h] = "empty"
        /\ replies[h] = << FallbackReply >>
        /\ Len(HistoryOf(activity[h].conversation)) = 2

\* C8: the user turns of a conversation are stored in the order in which
\* their messages arrived: no exchange is stored after the exchange of a
\* message that arrived later.
C8_ArrivalOrder ==
    \A c \in ConvIds : \A i \in 1..Len(turnMeta[c]) : ~turnMeta[c][i].late

\* C9: the prompt of an invocation is that of the turns its conversation
\* held when the prompt was assembled: they stay the first turns of the
\* conversation while the invocation is suspended, turns stored meanwhile
\* by others are not in the prompt, and the turns an exchange was prompted
\* with are at most those stored before its own.
C9_PromptOfSnapshot ==
    /\ \A h \in Handlers :
          pc[h] = "send" =>
              LET history == HistoryOf(activity[h].conversation)
              IN  /\ snapLen[h] <= Len(history)
                  /\ contextual_input[h] =
                        ContextualInput(SubSeq(history, 1, snapLen[h]),
                                        UserName(activity[h].sender),
                                        activity[h].text)
    /\ \A c \in ConvIds : \A i \in 1..Len(turnMeta[c]) :
          turnMeta[c][i].ctx <= 2 * ((i - 1) \div 2)

\* C9 witness: two handlers of one conversation assembled their prompts from
\* the same (empty) list of turns before either appended: the exchange
\* stored second was prompted with none of the two turns stored directly
\* before it.
C9_Witness ==
    \E c \in ConvIds :
        /\ Len(HistoryOf(c)) = 4
        /\ turnMeta[c][1].ctx = 0
        /\ turnMeta[c][3].ctx = 0

\* C2: when chat_prompt.send raises, the one text the invocation passes to
\* the chat surface is "Sorry, I encountered an error: " followed by the
\* description of the failure, and no step of that invocation changes the
\* turns of any conversation.
C2_SendRaises ==
    /\ [] (\A h \in Handlers :
             sendOutcome[h] = "raised" =>
                 /\ pc[h] = "except"
                 /\ replies[h] =
                       << <<"Sorry, I encountered an error: ">> \o error_msg[h] >>)
    /\ [][\A h \in Handlers :
             ( \/ pc[h] = "typing" /\ pc'[h] # "typing"
               \/ pc[h] = "send" /\ sendOutcome'[h] = "raised"
               \/ sendOutcome[h] = "raised" /\ pc'[h] # pc[h] )
             => TurnsUnchanged]_vars

\* C2 witness: on a conversation that already holds an exchange, the model
\* call raised with the description "timeout" and the invocation waits for
\* the reply of the except clause.
C2_Witness ==
    \E h \in Handlers :
        /\ pc[h] = "except" /\ sendOutcome[h] = "raised"
        /\ error_msg[h] = <<"timeout">>
        /\ Len(HistoryOf(activity[h].conversation)) = 2

HasHistoryPrefix(h) ==
    /\ Len(contextual_input[h]) > 0
    /\ contextual_input[h][1] = "Conversation history:\n"

\* The prompt of invocation h is the current request and nothing else.
OnlyCurrentRequest(h) ==
    \E label \in {<<"User">>} \cup
                 {<<"User (">> \o a.name.s \o <<")">> :
                     a \in {x \in {activity[h].sender.from_property,
                                   activity[h].sender.from} : x.name.s # <<>>}} :
        contextual_input[h] = label \o <<" request: ">> \o Str(activity[h].text)

\* C5 as stated: the prompt has the history header if and only if the
\* conversation holds turns when the prompt is assembled, and on a
\* conversation whose earlier messages all ended in the empty-response or
\* error path (none of them returned from the reply of line 291) the prompt
\* is the current request only.
C5_Original ==
    \A h \in Handlers :
        pc[h] = "send" =>
            /\ HasHistoryPrefix(h) <=> snapLen[h] > 0
            /\ ~okEnded[activity[h].conversation] =>
                   ~HasHistoryPrefix(h) /\ OnlyCurrentRequest(h)

\* C5, amended: the prompt has the history header if and only if the
\* conversation holds turns when the prompt is assembled, and on a
\* conversation none of whose earlier messages got a non-empty response
\* from the model the prompt is the current request only.
C5_PrefixIffTurns ==
    \A h \in Handlers :
        pc[h] = "send" =>
            /\ HasHistoryPrefix(h) <=> snapLen[h] > 0
            /\ snapLen[h] = 0 => OnlyCurrentRequest(h)
            /\ exchanges[activity[h].conversation] = 0 =>
                   ~HasHistoryPrefix(h) /\ OnlyCurrentRequest(h)

\* C5 witness: a prompt without history is assembled for the third message,
\* the conversations holding no turn (the earlier messages ended in the
\* empty-response or the error path).
C5_Witness ==
    \E h \in Handlers :
        /\ pc[h] = "send" /\ arrivals = 3
        /\ \A c \in ConvIds : exchanges[c] = 0
        /\ ~HasHistoryPrefix(h)

\* C6: every invocation that entered the except clause (a failure of steps
\* 2-6 was caught) returns normally: no exception leaves it.
C6_ReturnsNormally ==
    [][\A h \in Handlers : pc[h] = "except" => pc'[h] \in {"except", "idle"}]_vars

\* C7: the instructions passed to the model are the base instructions
\* followed by the note naming the sender when the activity has a sender
\* with a non-empty name, and exactly the base instructions otherwise.
C7_NoteIffSenderName ==
    \A h \in Handlers :
        pc[h] = "send" =>
            LET sender == activity[h].sender
                account ==
                    IF sender.hasFromProperty /\ sender.from_property.present
                    THEN sender.from_property
                    ELSE IF sender.hasFrom THEN sender.from ELSE NoAccount
                name ==
                    IF account.present /\ account.hasName /\ ~account.name.isNone
                    THEN account.name.s ELSE <<>>
            IN  /\ Len(full_instructions[h]) >= 1
                /\ full_instructions[h][1] = base_instructions[1]
                /\ name = <<>> => full_instructions[h] = base_instructions
                /\ name # <<>> =>
                      /\ Len(full_instructions[h]) = Len(name) + 3
                      /\ full_instructions[h][2] =
                            "\n\n## CURRENT USER CONTEXT\nThe person making this request is: "
                      /\ SubSeq(full_instructions[h], 3, Len(name) + 2) = name

\* C7 witness: the name of the sender is found in the from attribute (the
\* activity's from_property is None), and the note is in the instructions.
C7_Witness ==
    \E h \in Handlers :
        /\ pc[h] = "send"
        /\ ~activity[h].sender.from_property.present
        /\ activity[h].sender.from.name = Some(<<"Alex">>)
        /\ Len(full_instructions[h]) = 4

\* C10: every stored turn, user or assistant, has non-empty text content.
C10_NonEmptyContent ==
    \A c \in ConvIds : \A i \in 1..Len(HistoryOf(c)) :
        Truthy(HistoryOf(c)[i].content)


=============================================================================
